---------------------------- MODULE Spec2Model ----------------------------
(***************************************************************************)
(* The generator scripts of commit-queue-sandbox as one state machine.     *)
(*                                                                         *)
(* Every script is a separate command-line program.  A behaviour picks one *)
(* program (prog) and is a sequence of invocations of it in the same       *)
(* output directory: the directory listing (dir) outlives an invocation,   *)
(* everything else is the running process's own state.                     *)
(*                                                                         *)
(* Conventions:                                                            *)
(*  - a text is the sequence of its lines, a line a tuple of its tokens;   *)
(*    "\n".join(...) is the concatenation of line sequences;               *)
(*  - probabilities and random.random() draws are in thousandths;          *)
(*  - durations are in milliseconds;                                       *)
(*  - random payloads that only fill a token of a line and never decide    *)
(*    control flow or a count (the expected/actual numbers of a failure    *)
(*    message, the log level, a span's kind) are not drawn;                *)
(*  - the header and progress lines printed by the drivers are not kept:   *)
(*    stdout holds the usage message and the final totals.                 *)
(***************************************************************************)
EXTENDS Integers, Sequences, FiniteSets, TLC

(* ------------------------------ bounds -------------------------------- *)

MaxFiles == 2

MaxTests == 2

MaxLogLines == 7

MaxObjects == 2

MaxInputTests == 2

(* -------------------------- program constants -------------------------- *)

\* spans_per_object in generate_trace_file
spans_per_object == 275

\* random.randint(2, 8) in generate_test_output
LogLinesMin == 2

LogLinesMax == 8

\* random.random() < 0.3 and random.random() < 0.5 in generate_trace_data
ChildProb == 300

RootProb == 500

\* the default of spans_per_file in generate_trace_files.main
DefaultSpansPerFile == 100

(* ------------------------------ inputs --------------------------------- *)

Programs == {"gotest", "xunit", "results", "traces", "selection"}

\* outcomes of random.random(), which lies in [0.0, 1.0)
RandomDraws == {0, 100, 999}

\* failure_rate arguments
FailureRates == {0, 100, 1000}

\* outcomes of random.uniform(0.001, 0.5)
TestDurations == {1, 500}

\* outcomes of random.uniform(0.1, 2.0)
ResultDurations == {100, 2000}

\* outcomes of int(time.time()), relative to the first call
Times == {0, 1}

(* ----------------------------- formatting ------------------------------ *)

RECURSIVE Digits(_)
Digits(n) == IF n < 10 THEN <<n>> ELSE Append(Digits(n \div 10), n % 10)

RECURSIVE ZeroPad(_, _)
ZeroPad(s, width) == IF Len(s) >= width THEN s ELSE ZeroPad(<<0>> \o s, width)

\* Mutant: the index loses its last digit.
Fmt04d_Tens(n) == ZeroPad(Digits(n \div 10), 4)

\* f"{n:04d}" for n >= 0
Fmt04d(n) == ZeroPad(Digits(n), 4)

\* f"{n:03d}" and f"{n:05d}" for n >= 0
Fmt03d(n) == ZeroPad(Digits(n), 3)

Fmt05d(n) == ZeroPad(Digits(n), 5)

\* "\n".join(blocks) for blocks that are texts
RECURSIVE Join(_)
Join(blocks) == IF blocks = <<>> THEN <<>> ELSE Head(blocks) \o Join(Tail(blocks))

Max(a, b) == IF a >= b THEN a ELSE b

\* Mutant: the comparison is <= instead of <.
ShouldFail_Inclusive(draw, rate) == draw <= rate

\* random.random() < failure_rate
ShouldFail(draw, rate) == draw < rate

(* ------------------------------- state --------------------------------- *)

VARIABLES
    prog,            \* the script this behaviour runs
    pc,              \* the process's position: start, main_loop, file_loop, ..., exit
    exit_code,       \* the exit status once pc = "exit"
    stdout,          \* the usage message and the final totals printed
    dir,             \* names of the generated files in the output directory
    written,         \* the file this process wrote last: [name, content]
    returned,        \* what the file assembler returned last
    max_run,         \* history: the largest num_files of a completed invocation
    num_files, tests_per_file, failure_rate,      \* parsed arguments
    num_tests, log_lines, spans_per_file,
    input,           \* the file named by argv[1] of generate_test_results.py
    file_num, total_tests, total_failures, total_spans,   \* locals of main
    test_num, lines, test_cases, total_time,              \* locals of the assemblers
    num_failures, num_passes, actual_spans,
    results, names

procVars == <<prog, pc, exit_code, stdout>>
fsVars   == <<dir, written, returned, max_run>>
argVars  == <<num_files, tests_per_file, failure_rate, num_tests, log_lines,
              spans_per_file, input>>
mainVars == <<file_num, total_tests, total_failures, total_spans>>
asmVars  == <<test_num, lines, test_cases, total_time, num_failures, num_passes,
              actual_spans, results, names>>
vars     == <<procVars, fsVars, argVars, mainVars, asmVars>>

NoFile == [name |-> <<>>, content |-> <<>>]

\* argv[1] has not been opened
NoInput == [kind |-> "unread"]

\* A fresh process: nothing parsed, nothing written.
Fresh ==
    /\ pc = "start"
    /\ exit_code = 0
    /\ stdout = <<>>
    /\ written = NoFile
    /\ returned = <<>>
    /\ num_files = 0 /\ tests_per_file = 0 /\ failure_rate = 0
    /\ num_tests = 0 /\ log_lines = 0 /\ spans_per_file = 0
    /\ input = NoInput
    /\ file_num = 0 /\ total_tests = 0 /\ total_failures = 0 /\ total_spans = 0
    /\ test_num = 0 /\ lines = <<>> /\ test_cases = <<>> /\ total_time = 0
    /\ num_failures = 0 /\ num_passes = 0 /\ actual_spans = 0
    /\ results = <<>> /\ names = <<>>

Init ==
    /\ prog \in Programs
    /\ dir = {}
    /\ max_run = 0
    /\ Fresh

\* The script is run again in the same directory.
Invoke ==
    /\ pc = "exit"
    /\ pc' = "start"
    /\ exit_code' = 0
    /\ stdout' = <<>>
    /\ written' = NoFile
    /\ returned' = <<>>
    /\ num_files' = 0 /\ tests_per_file' = 0 /\ failure_rate' = 0
    /\ num_tests' = 0 /\ log_lines' = 0 /\ spans_per_file' = 0
    /\ input' = NoInput
    /\ file_num' = 0 /\ total_tests' = 0 /\ total_failures' = 0 /\ total_spans' = 0
    /\ test_num' = 0 /\ lines' = <<>> /\ test_cases' = <<>> /\ total_time' = 0
    /\ num_failures' = 0 /\ num_passes' = 0 /\ actual_spans' = 0
    /\ results' = <<>> /\ names' = <<>>
    /\ UNCHANGED <<prog, dir, max_run>>

(* ====================== generate_gotest_files.py ======================= *)

GotestModuleName(fnum) == <<"module_", Fmt04d(fnum)>>

GotestFileName(fnum) == <<GotestModuleName(fnum), ".suite">>

\* Mutant: a failing test's text ends after the failure message, without its
\* result line.
generate_test_output_NoFailLine(tnum, module_name, should_fail, n_log) ==
    LET test_name == <<"Test", module_name, "_Case", Fmt04d(tnum)>>
        status    == IF should_fail THEN "FAIL" ELSE "PASS"
        run       == << <<"=== RUN", test_name>> >>
        log       == [i \in 1..n_log |-> <<"log line", test_name, i>>]
        failure   == << <<"assertion failed", test_name>>,
                        <<"Expected:">>, <<"Actual:">> >>
        result    == << <<"--- " \o status \o ":", test_name>> >>
    IN  <<run \o log \o (IF should_fail THEN failure ELSE result), status>>

\* generate_test_output: the text of one test and its status.  n_log is the
\* outcome of random.randint(2, 8).
generate_test_output(tnum, module_name, should_fail, n_log) ==
    LET test_name == <<"Test", module_name, "_Case", Fmt04d(tnum)>>
        status    == IF should_fail THEN "FAIL" ELSE "PASS"
        run       == << <<"=== RUN", test_name>> >>
        log       == [i \in 1..n_log |-> <<"log line", test_name, i>>]
        failure   == IF should_fail
                     THEN << <<"assertion failed", test_name>>,
                             <<"Expected:">>, <<"Actual:">> >>
                     ELSE <<>>
        result    == << <<"--- " \o status \o ":", test_name>> >>
    IN  <<run \o log \o failure \o result, status>>

\* main: argument parsing and the totals' initialisation
GotestMain ==
    /\ prog = "gotest" /\ pc = "start"
    /\ \E nf \in 0..MaxFiles, tpf \in 0..MaxTests, rate \in FailureRates :
          /\ num_files' = nf
          /\ tests_per_file' = tpf
          /\ failure_rate' = rate
    /\ total_tests' = 0 /\ total_failures' = 0 /\ file_num' = 0
    /\ pc' = "main_loop"
    /\ UNCHANGED <<prog, exit_code, stdout, fsVars, num_tests, log_lines,
                   spans_per_file, input, total_spans, asmVars>>

\* main calls generate_suite_file, which initialises its locals
GotestBeginFile ==
    /\ prog = "gotest" /\ pc = "main_loop" /\ file_num < num_files
    /\ lines' = <<>> /\ num_failures' = 0 /\ num_passes' = 0 /\ test_num' = 0
    /\ pc' = "file_loop"
    /\ UNCHANGED <<prog, exit_code, stdout, fsVars, argVars, mainVars,
                   test_cases, total_time, actual_spans, results, names>>

\* one iteration of generate_suite_file's loop
GotestTest ==
    /\ prog = "gotest" /\ pc = "file_loop" /\ test_num < tests_per_file
    /\ \E draw \in RandomDraws, n_log \in {LogLinesMin, LogLinesMax} :
          LET out == generate_test_output(test_num, GotestModuleName(file_num),
                                          ShouldFail(draw, failure_rate), n_log)
          IN  /\ lines' = Append(lines, out[1])
              /\ IF out[2] = "FAIL"
                 THEN num_failures' = num_failures + 1 /\ num_passes' = num_passes
                 ELSE num_passes' = num_passes + 1 /\ num_failures' = num_failures
    /\ test_num' = test_num + 1
    /\ UNCHANGED <<procVars, fsVars, argVars, mainVars,
                   test_cases, total_time, actual_spans, results, names>>

\* the summary lines, the write, the return and main's accumulation
GotestWriteFile ==
    /\ prog = "gotest" /\ pc = "file_loop" /\ test_num = tests_per_file
    /\ LET summary == IF num_failures > 0 THEN <<"FAIL">> ELSE <<"PASS">>
           timing  == <<"ok", GotestModuleName(file_num)>>
           all     == lines \o << <<summary>>, <<timing>> >>
       IN  /\ lines' = all
           /\ written' = [name |-> GotestFileName(file_num), content |-> Join(all)]
           /\ dir' = dir \cup {GotestFileName(file_num)}
    /\ returned' = <<tests_per_file, num_failures>>
    /\ total_tests' = total_tests + tests_per_file
    /\ total_failures' = total_failures + num_failures
    /\ file_num' = file_num + 1
    /\ pc' = "main_loop"
    /\ UNCHANGED <<prog, exit_code, stdout, max_run, argVars, total_spans,
                   test_num, test_cases, total_time, num_failures, num_passes,
                   actual_spans, results, names>>

\* main's final summary and the process's exit
GotestDone ==
    /\ prog = "gotest" /\ pc = "main_loop" /\ file_num = num_files
    /\ stdout' = stdout \o << <<"Total tests:", total_tests>>,
                              <<"Total failures:", total_failures>> >>
    /\ pc' = "exit" /\ exit_code' = 0
    /\ max_run' = Max(max_run, num_files)
    /\ UNCHANGED <<prog, dir, written, returned, argVars, mainVars, asmVars>>

(* ======================= generate_xunit_files.py ======================= *)

XunitModuleName(fnum) == <<"module_", Fmt04d(fnum)>>

XunitFileName(fnum) == <<"junit-", Fmt04d(fnum), ".xml">>

\* Mutant: both branches return False as the failed flag.
generate_test_case_FlagFalse(module_name, tnum, should_fail, duration) ==
    LET element == [tag       |-> "testcase",
                    classname |-> <<"test_", module_name, ".Test", module_name, "Suite">>,
                    name      |-> <<"test_", module_name, "_case_", Fmt04d(tnum)>>,
                    time      |-> duration,
                    children  |-> IF should_fail
                                  THEN << [tag     |-> "failure",
                                           message |-> "Test failed",
                                           type    |-> "AssertionError"] >>
                                  ELSE <<>>]
    IN  <<element, duration, FALSE>>

\* generate_test_case: one <testcase> element, its duration and whether it
\* failed.  A failing case has one <failure> child, a passing one is empty.
generate_test_case(module_name, tnum, should_fail, duration) ==
    LET element == [tag       |-> "testcase",
                    classname |-> <<"test_", module_name, ".Test", module_name, "Suite">>,
                    name      |-> <<"test_", module_name, "_case_", Fmt04d(tnum)>>,
                    time      |-> duration,
                    children  |-> IF should_fail
                                  THEN << [tag     |-> "failure",
                                           message |-> "Test failed",
                                           type    |-> "AssertionError"] >>
                                  ELSE <<>>]
    IN  <<element, duration, should_fail>>

XunitMain ==
    /\ prog = "xunit" /\ pc = "start"
    /\ \E nf \in 0..MaxFiles, tpf \in 0..MaxTests, rate \in FailureRates :
          /\ num_files' = nf
          /\ tests_per_file' = tpf
          /\ failure_rate' = rate
    /\ total_tests' = 0 /\ total_failures' = 0 /\ file_num' = 0
    /\ pc' = "main_loop"
    /\ UNCHANGED <<prog, exit_code, stdout, fsVars, num_tests, log_lines,
                   spans_per_file, input, total_spans, asmVars>>

\* main calls generate_xunit_file, which initialises its locals
XunitBeginFile ==
    /\ prog = "xunit" /\ pc = "main_loop" /\ file_num < num_files
    /\ test_cases' = <<>> /\ total_time' = 0 /\ num_failures' = 0 /\ test_num' = 0
    /\ pc' = "file_loop"
    /\ UNCHANGED <<prog, exit_code, stdout, fsVars, argVars, mainVars,
                   lines, num_passes, actual_spans, results, names>>

\* one iteration of generate_xunit_file's loop
XunitTestCase ==
    /\ prog = "xunit" /\ pc = "file_loop" /\ test_num < tests_per_file
    /\ \E draw \in RandomDraws, duration \in TestDurations :
          LET case == generate_test_case(XunitModuleName(file_num), test_num,
                                         ShouldFail(draw, failure_rate), duration)
          IN  /\ test_cases' = Append(test_cases, case[1])
              /\ total_time' = total_time + case[2]
              /\ num_failures' = IF case[3] THEN num_failures + 1 ELSE num_failures
    /\ test_num' = test_num + 1
    /\ UNCHANGED <<procVars, fsVars, argVars, mainVars,
                   lines, num_passes, actual_spans, results, names>>

\* XUNIT_TEMPLATE.format(...): the <testsuite> document
XunitDocument(fnum, n_tests, n_failures, time, cases) ==
    [tag      |-> "testsuite",
     name     |-> <<"test_", XunitModuleName(fnum), ".Test", XunitModuleName(fnum), "Suite">>,
     tests    |-> n_tests,
     failures |-> n_failures,
     errors   |-> 0,
     time     |-> time,
     children |-> cases]

\* the document, the write, the return and main's accumulation
XunitWriteFile ==
    /\ prog = "xunit" /\ pc = "file_loop" /\ test_num = tests_per_file
    /\ written' = [name    |-> XunitFileName(file_num),
                   content |-> XunitDocument(file_num, tests_per_file, num_failures,
                                             total_time, test_cases)]
    /\ dir' = dir \cup {XunitFileName(file_num)}
    /\ returned' = <<tests_per_file, num_failures>>
    /\ total_tests' = total_tests + tests_per_file
    /\ total_failures' = total_failures + num_failures
    /\ file_num' = file_num + 1
    /\ pc' = "main_loop"
    /\ UNCHANGED <<prog, exit_code, stdout, max_run, argVars, total_spans, asmVars>>

XunitDone ==
    /\ prog = "xunit" /\ pc = "main_loop" /\ file_num = num_files
    /\ stdout' = stdout \o << <<"Total tests:", total_tests>>,
                              <<"Total failures:", total_failures>> >>
    /\ pc' = "exit" /\ exit_code' = 0
    /\ max_run' = Max(max_run, num_files)
    /\ UNCHANGED <<prog, dir, written, returned, argVars, mainVars, asmVars>>

(* ====================== generate_results_file.py ======================= *)

\* generate_log_content: the log of one test, as its lines
generate_log_content(test_name, n_lines, failed) ==
    LET header == << <<"=== Starting test:", test_name>>,
                     <<"Test configuration loaded at">> >>
        step(i) == IF failed /\ i = n_lines - 6
                   THEN << <<"ERROR: Assertion failed at line">>,
                           <<"  Expected:">>, <<"  Actual:">> >>
                   ELSE << <<"Processing step", i + 1>> >>
        body   == Join([k \in 1..Max(n_lines - 4, 0) |-> step(k - 1)])
        footer == << <<"=== Test", test_name, IF failed THEN "FAILED" ELSE "PASSED">> >>
    IN  header \o body \o footer

\* Mutant: end_time is the start time, the duration is dropped.
generate_test_result_NoDuration(tnum, should_fail, duration, n_lines) ==
    LET module_name == <<"module_", Fmt03d(tnum \div 100)>>
        test_name   == <<"test_", module_name, ".Test", module_name,
                         "Suite.test_case_", Fmt05d(tnum)>>
        start_time  == tnum * 500
    IN  [test_file |-> test_name,
         status    |-> IF should_fail THEN "fail" ELSE "pass",
         start     |-> start_time,
         end       |-> start_time,
         log_raw   |-> generate_log_content(test_name, n_lines, should_fail)]

\* generate_test_result: one record of the results list.  Timestamps are
\* milliseconds after 1700000000.0 s.
generate_test_result(tnum, should_fail, duration, n_lines) ==
    LET module_name == <<"module_", Fmt03d(tnum \div 100)>>
        test_name   == <<"test_", module_name, ".Test", module_name,
                         "Suite.test_case_", Fmt05d(tnum)>>
        start_time  == tnum * 500
        end_time    == start_time + duration
    IN  [test_file |-> test_name,
         status    |-> IF should_fail THEN "fail" ELSE "pass",
         start     |-> start_time,
         end       |-> end_time,
         log_raw   |-> generate_log_content(test_name, n_lines, should_fail)]

ResultsFileName == <<"test_results.json">>

ResultsMain ==
    /\ prog = "results" /\ pc = "start"
    /\ \E nt \in 0..MaxTests, rate \in FailureRates, ll \in 0..MaxLogLines :
          /\ num_tests' = nt
          /\ failure_rate' = rate
          /\ log_lines' = ll
    /\ results' = <<>> /\ num_failures' = 0 /\ test_num' = 0
    /\ pc' = "main_loop"
    /\ UNCHANGED <<prog, exit_code, stdout, fsVars, num_files, tests_per_file,
                   spans_per_file, input, mainVars, lines, test_cases, total_time,
                   num_passes, actual_spans, names>>

\* one iteration of main's loop
ResultsGenerate ==
    /\ prog = "results" /\ pc = "main_loop" /\ test_num < num_tests
    /\ \E draw \in RandomDraws, duration \in ResultDurations :
          LET result == generate_test_result(test_num, ShouldFail(draw, failure_rate),
                                             duration, log_lines)
          IN  /\ results' = Append(results, result)
              /\ num_failures' = IF result.status = "fail"
                                 THEN num_failures + 1 ELSE num_failures
    /\ test_num' = test_num + 1
    /\ UNCHANGED <<procVars, fsVars, argVars, mainVars, lines, test_cases,
                   total_time, num_passes, actual_spans, names>>

\* json.dump of the output object, the final summary and the exit
ResultsWrite ==
    /\ prog = "results" /\ pc = "main_loop" /\ test_num = num_tests
    /\ written' = [name |-> ResultsFileName, content |-> [results |-> results]]
    /\ dir' = dir \cup {ResultsFileName}
    /\ stdout' = stdout \o << <<"Total failures:", num_failures>> >>
    /\ pc' = "exit" /\ exit_code' = 0
    /\ UNCHANGED <<prog, returned, max_run, argVars, mainVars, asmVars>>

(* ======================= generate_trace_files.py ======================= *)

\* The random outcomes one trace object is built from: the trace id, the
\* stream the span ids come from (span i gets id <<ids, i % id_period>>, so a
\* small id_period makes ids repeat), and the pairs of random.random() draws
\* that follow each span, used cyclically.
TraceSeeds ==
    { [trace_id |-> "t1", ids |-> "a", id_period |-> 1000,
       draws |-> << <<0, 0>> >>],
      [trace_id |-> "t2", ids |-> "b", id_period |-> 1000,
       draws |-> << <<299, 999>>, <<999, 500>>, <<300, 499>>, <<500, 999>> >>],
      [trace_id |-> "t1", ids |-> "a", id_period |-> 2,
       draws |-> << <<999, 999>>, <<0, 0>>, <<300, 0>> >>] }

\* spans_per_file arguments: around every multiple of spans_per_object
SpansPerFileArgs ==
    {0, 1, DefaultSpansPerFile} \cup
    {k * spans_per_object + d : k \in 1..MaxObjects, d \in {-1, 0, 1}}

\* generate_span: the empty parentSpanId "" is the empty sequence
generate_span(trace_id, parent_span_id, span_num, span_id) ==
    [traceId      |-> trace_id,
     spanId       |-> span_id,
     parentSpanId |-> parent_span_id,
     name         |-> <<"operation_", Fmt04d(span_num)>>,
     span_num     |-> span_num]

\* generate_span_id for span i of an object
SpanIdAt(seed, i) == <<seed.ids, i % seed.id_period>>

\* Mutant: a span that gets children hands on the id drawn for the span
\* after it, not its own.
RECURSIVE ParentAt_NextId(_, _)
ParentAt_NextId(seed, i) ==
    IF i = 0 THEN <<>>
    ELSE LET d == seed.draws[((i - 1) % Len(seed.draws)) + 1]
         IN  IF d[1] < ChildProb THEN SpanIdAt(seed, i)
             ELSE IF d[2] < RootProb THEN <<>>
             ELSE ParentAt_NextId(seed, i - 1)

\* The value parent_span_id holds when iteration i of generate_trace_data's
\* loop begins: "" before the first iteration, afterwards what iteration
\* i - 1 left: the id of its span, "", or what it found.
RECURSIVE ParentAt(_, _)
ParentAt(seed, i) ==
    IF i = 0 THEN <<>>
    ELSE LET d == seed.draws[((i - 1) % Len(seed.draws)) + 1]
         IN  IF d[1] < ChildProb THEN SpanIdAt(seed, i - 1)
             ELSE IF d[2] < RootProb THEN <<>>
             ELSE ParentAt(seed, i - 1)

\* Mutant: the loop runs over range(1, num_spans).
generate_trace_data_FromOne(num_spans, seed) ==
    LET trace_id == seed.trace_id
        spans    == [k \in 1..(num_spans - 1) |->
                        generate_span(trace_id, ParentAt(seed, k), k, SpanIdAt(seed, k))]
    IN  [resourceSpans |->
            << [resource   |-> "test-service",
                scopeSpans |-> << [scope |-> "test-tracer",
                                   spans |-> spans] >>] >>]

\* generate_trace_data: iteration i appends its span, so the i-th element of
\* spans is the span of iteration i - 1
generate_trace_data(num_spans, seed) ==
    LET trace_id == seed.trace_id
        spans    == [k \in 1..num_spans |->
                        generate_span(trace_id, ParentAt(seed, k - 1), k - 1,
                                      SpanIdAt(seed, k - 1))]
    IN  [resourceSpans |->
            << [resource   |-> "test-service",
                scopeSpans |-> << [scope |-> "test-tracer",
                                   spans |-> spans] >>] >>]

\* generate_trace_data(spans_per_object), the call of generate_trace_file,
\* for each of the random outcomes
TraceObjects == [seed \in TraceSeeds |-> generate_trace_data(spans_per_object, seed)]

\* json.dumps without indent: the object on one line; json.loads reads it back
JsonDumps(obj) == <<"json", obj>>

JsonLoads(line) == line[2]

num_trace_objects(spf) == Max(1, spf \div spans_per_object)

TracesFileName(fnum) == <<"traces_", Fmt04d(fnum), ".jsonl">>

\* main: argument parsing (spans_per_file may be left to its default),
\* os.makedirs and the total's initialisation
TracesMain ==
    /\ prog = "traces" /\ pc = "start"
    /\ \E nf \in 0..MaxFiles, spf \in SpansPerFileArgs :
          /\ num_files' = nf
          /\ spans_per_file' = spf
    /\ total_spans' = 0 /\ file_num' = 0
    /\ pc' = "main_loop"
    /\ UNCHANGED <<prog, exit_code, stdout, fsVars, tests_per_file, failure_rate,
                   num_tests, log_lines, input, total_tests, total_failures, asmVars>>

\* main calls generate_trace_file, which initialises its locals
TracesBeginFile ==
    /\ prog = "traces" /\ pc = "main_loop" /\ file_num < num_files
    /\ lines' = <<>> /\ actual_spans' = 0
    /\ pc' = "file_loop"
    /\ UNCHANGED <<prog, exit_code, stdout, fsVars, argVars, mainVars, test_num,
                   test_cases, total_time, num_failures, num_passes, results, names>>

\* one iteration of generate_trace_file's loop: one more line
TracesObject ==
    /\ prog = "traces" /\ pc = "file_loop"
    /\ Len(lines) < num_trace_objects(spans_per_file)
    /\ \E seed \in TraceSeeds :
          lines' = Append(lines, JsonDumps(TraceObjects[seed]))
    /\ actual_spans' = actual_spans + spans_per_object
    /\ UNCHANGED <<procVars, fsVars, argVars, mainVars, test_num, test_cases,
                   total_time, num_failures, num_passes, results, names>>

\* the write of "\n".join(lines) + "\n", the return and main's accumulation
TracesWriteFile ==
    /\ prog = "traces" /\ pc = "file_loop"
    /\ Len(lines) = num_trace_objects(spans_per_file)
    /\ written' = [name |-> TracesFileName(file_num), content |-> lines]
    /\ dir' = dir \cup {TracesFileName(file_num)}
    /\ returned' = actual_spans
    /\ total_spans' = total_spans + actual_spans
    /\ file_num' = file_num + 1
    /\ pc' = "main_loop"
    /\ UNCHANGED <<prog, exit_code, stdout, max_run, argVars, total_tests,
                   total_failures, asmVars>>

\* the final summary, with the count of .jsonl files found by os.listdir
TracesDone ==
    /\ prog = "traces" /\ pc = "main_loop" /\ file_num = num_files
    /\ stdout' = stdout \o << <<"Total spans:", total_spans>>,
                              <<"Files in output directory:", Cardinality(dir)>> >>
    /\ pc' = "exit" /\ exit_code' = 0
    /\ max_run' = Max(max_run, num_files)
    /\ UNCHANGED <<prog, dir, written, returned, argVars, mainVars, asmVars>>

(* ======================= generate_test_results.py ====================== *)

\* A JSON object is a function from its keys.  Entries of a "tests" list:
\* two with a "name", one without.
InputEntries == {[name |-> "A"], [name |-> "B"], [path |-> "C"]}

InputTestLists == UNION {[1..n -> InputEntries] : n \in 0..MaxInputTests}

\* What open() and json.load() find at argv[1]: no file, a file that is not
\* JSON, JSON that is not an object (an array), an object with a "tests"
\* list, an object without one.
InputFiles ==
    {[kind |-> "missing"], [kind |-> "invalid"], [kind |-> "array"]} \cup
    {[kind |-> "json", doc |-> [tests |-> l]] : l \in InputTestLists} \cup
    {[kind |-> "json", doc |-> [seed |-> 1]]}

\* recommended_tests.get("tests", [])
GetTests(doc) == IF "tests" \in DOMAIN doc THEN doc.tests ELSE <<>>

SelectionFileName == <<"test_selection_results.json">>

\* len(sys.argv) < 2: the usage message and sys.exit(1)
SelUsage ==
    /\ prog = "selection" /\ pc = "start"
    /\ stdout' = Append(stdout, <<"Usage: generate_test_results.py <test_file>">>)
    /\ pc' = "exit" /\ exit_code' = 1
    /\ UNCHANGED <<prog, fsVars, argVars, mainVars, asmVars>>

\* open() and json.load() of argv[1]; either may raise, which ends the process
SelLoad ==
    /\ prog = "selection" /\ pc = "start"
    /\ \E f \in InputFiles :
          /\ input' = f
          /\ IF f.kind \in {"json", "array"}
             THEN pc' = "names" /\ exit_code' = exit_code
             ELSE pc' = "exit" /\ exit_code' = 1
    /\ UNCHANGED <<prog, stdout, fsVars, num_files, tests_per_file, failure_rate,
                   num_tests, log_lines, spans_per_file, mainVars, asmVars>>

\* Mutant: the output file is opened for writing before the names are
\* collected, so a KeyError leaves it behind, empty.
SelNames_OpenedEarly ==
    /\ prog = "selection" /\ pc = "names"
    /\ LET tests == IF input.kind = "json" THEN GetTests(input.doc) ELSE <<>>
       IN  IF /\ input.kind = "json"
              /\ \A i \in DOMAIN tests : "name" \in DOMAIN tests[i]
           THEN /\ names' = [i \in DOMAIN tests |-> tests[i].name]
                /\ results' = <<>>
                /\ pc' = "append" /\ exit_code' = exit_code
                /\ UNCHANGED <<dir, written>>
           ELSE /\ pc' = "exit" /\ exit_code' = 1
                /\ written' = [name |-> SelectionFileName, content |-> [results |-> <<>>]]
                /\ dir' = dir \cup {SelectionFileName}
                /\ UNCHANGED <<names, results>>
    /\ UNCHANGED <<prog, stdout, returned, max_run, argVars, mainVars, test_num, lines,
                   test_cases, total_time, num_failures, num_passes, actual_spans>>

\* names = [test["name"] for test in recommended_tests.get("tests", [])]:
\* an AttributeError (no .get on an array) or a KeyError ends the process
SelNames ==
    /\ prog = "selection" /\ pc = "names"
    /\ LET tests == IF input.kind = "json" THEN GetTests(input.doc) ELSE <<>>
       IN  IF /\ input.kind = "json"
              /\ \A i \in DOMAIN tests : "name" \in DOMAIN tests[i]
           THEN /\ names' = [i \in DOMAIN tests |-> tests[i].name]
                /\ results' = <<>>
                /\ pc' = "append" /\ exit_code' = exit_code
           ELSE /\ pc' = "exit" /\ exit_code' = 1
                /\ UNCHANGED <<names, results>>
    /\ UNCHANGED <<prog, stdout, fsVars, argVars, mainVars, test_num, lines,
                   test_cases, total_time, num_failures, num_passes, actual_spans>>

\* Mutant: start and end come from two calls of time.time().
SelAppend_TwoClockReads ==
    /\ prog = "selection" /\ pc = "append" /\ Len(results) < Len(names)
    /\ \E start_time \in Times, end_time \in Times :
          results' = Append(results, [status    |-> "pass",
                                      test_file |-> names[Len(results) + 1],
                                      start     |-> start_time,
                                      end       |-> end_time])
    /\ UNCHANGED <<procVars, fsVars, argVars, mainVars, test_num, lines, test_cases,
                   total_time, num_failures, num_passes, actual_spans, names>>

\* one iteration of the loop over names
SelAppend ==
    /\ prog = "selection" /\ pc = "append" /\ Len(results) < Len(names)
    /\ \E curr_time \in Times :
          results' = Append(results, [status    |-> "pass",
                                      test_file |-> names[Len(results) + 1],
                                      start     |-> curr_time,
                                      end       |-> curr_time])
    /\ UNCHANGED <<procVars, fsVars, argVars, mainVars, test_num, lines, test_cases,
                   total_time, num_failures, num_passes, actual_spans, names>>

\* json.dump of result_data and the normal exit
SelWrite ==
    /\ prog = "selection" /\ pc = "append" /\ Len(results) = Len(names)
    /\ written' = [name |-> SelectionFileName, content |-> [results |-> results]]
    /\ dir' = dir \cup {SelectionFileName}
    /\ pc' = "exit" /\ exit_code' = 0
    /\ UNCHANGED <<prog, stdout, returned, max_run, argVars, mainVars, asmVars>>

Next ==
    \/ Invoke
    \/ GotestMain \/ GotestBeginFile \/ GotestTest \/ GotestWriteFile \/ GotestDone
    \/ XunitMain \/ XunitBeginFile \/ XunitTestCase \/ XunitWriteFile \/ XunitDone
    \/ ResultsMain \/ ResultsGenerate \/ ResultsWrite
    \/ TracesMain \/ TracesBeginFile \/ TracesObject \/ TracesWriteFile \/ TracesDone
    \/ SelUsage \/ SelLoad \/ SelNames \/ SelAppend \/ SelWrite

Spec == Init /\ [][Next]_vars

(* ============================== claims ================================ *)

\* the number of elements of s that satisfy P
CountIf(s, P(_)) == Cardinality({i \in DOMAIN s : P(s[i])})

IsResultLine(l) == l[1] \in {"--- PASS:", "--- FAIL:"}

IsFailLine(l) == l[1] = "--- FAIL:"

IsSummaryLine(l) == Len(l) = 1 /\ l[1] \in {"PASS", "FAIL"}

\* C1: a written .suite file has exactly tests_per_file result lines
\* ("--- PASS:" or "--- FAIL:"), exactly one for each test; it has one
\* summary line, which reads FAIL exactly when some result line is a
\* "--- FAIL:" line; and generate_suite_file returned (tests_per_file, the
\* number of "--- FAIL:" lines).
C1_SuiteFileCounts ==
    (prog = "gotest" /\ written.name # <<>>) =>
        LET c       == written.content
            mod     == written.name[1]
            resultOf(t) == {i \in DOMAIN c : /\ IsResultLine(c[i])
                                             /\ c[i][2] = <<"Test", mod, "_Case", Fmt04d(t)>>}
            summary == {i \in DOMAIN c : IsSummaryLine(c[i])}
        IN  /\ CountIf(c, IsResultLine) = tests_per_file
            /\ \A t \in 0..(tests_per_file - 1) : Cardinality(resultOf(t)) = 1
            /\ Cardinality(summary) = 1
            /\ \A i \in summary : (c[i][1] = "FAIL") <=> (CountIf(c, IsFailLine) >= 1)
            /\ returned = <<tests_per_file, CountIf(c, IsFailLine)>>

\* C1's case: a file of two tests, one passed and one failed.
C1_Witness ==
    /\ prog = "gotest" /\ written.name # <<>>
    /\ tests_per_file = 2
    /\ CountIf(written.content, IsFailLine) = 1

HasFailure(e) == \E j \in DOMAIN e.children : e.children[j].tag = "failure"

IsTestcase(e) == e.tag = "testcase"

\* C2: after every iteration of generate_xunit_file's loop num_failures is
\* the number of appended test cases that hold a <failure> child, and in a
\* written document the tests attribute is the number of <testcase> elements
\* and the failures attribute the number of those with a <failure> child.
C2_XunitCounts ==
    /\ (prog = "xunit" /\ pc = "file_loop") =>
          /\ Len(test_cases) = test_num
          /\ num_failures = CountIf(test_cases, HasFailure)
    /\ (prog = "xunit" /\ written.name # <<>>) =>
          LET doc == written.content
          IN  /\ doc.tests = CountIf(doc.children, IsTestcase)
              /\ doc.failures = CountIf(doc.children, HasFailure)

\* C2's case: a document of two test cases of which one failed.
C2_Witness ==
    /\ prog = "xunit" /\ written.name # <<>>
    /\ Len(written.content.children) = 2
    /\ written.content.failures = 1

IsFailRecord(r) == r.status = "fail"

\* C3: the written test_results.json holds exactly num_tests records, each
\* with end > start, and the failure total printed is the number of records
\* with status "fail".
C3_ResultsFile ==
    (prog = "results" /\ written.name # <<>>) =>
        LET rs == written.content.results
        IN  /\ Len(rs) = num_tests
            /\ \A i \in DOMAIN rs : rs[i].end > rs[i].start
            /\ stdout[Len(stdout)] = <<"Total failures:", CountIf(rs, IsFailRecord)>>

\* C3's case: two records, the first passed and the second failed.
C3_Witness ==
    /\ prog = "results" /\ written.name # <<>>
    /\ num_tests = 2
    /\ written.content.results[1].status = "pass"
    /\ written.content.results[2].status = "fail"

SpansOfLine(line) == JsonLoads(line).resourceSpans[1].scopeSpans[1].spans

RECURSIVE TotalSpans(_)
TotalSpans(content) ==
    IF content = <<>> THEN 0
    ELSE Len(SpansOfLine(Head(content))) + TotalSpans(Tail(content))

\* C4: every line of a written trace file is a trace object whose
\* resourceSpans[0].scopeSpans[0].spans holds exactly spans_per_object
\* spans, and generate_trace_file returned the number of spans of all lines.
C4_TraceFileLines ==
    (prog = "traces" /\ written.name # <<>>) =>
        /\ \A i \in DOMAIN written.content :
              Len(SpansOfLine(written.content[i])) = spans_per_object
        /\ returned = TotalSpans(written.content)

\* C4's case: a file of two lines.
C4_Witness ==
    /\ prog = "traces" /\ written.name # <<>>
    /\ Len(written.content) = 2
    /\ returned = 2 * spans_per_object

\* C5: the written test_selection_results.json holds one entry for each
\* entry of the input's "tests" list, in the input's order: entry i names
\* the i-th input name, has status "pass" and start = end.  Without a
\* "tests" key the results list is empty.
C5_SelectionResults ==
    (prog = "selection" /\ written.name # <<>>) =>
        LET tests == GetTests(input.doc)
            rs    == written.content.results
        IN  /\ Len(rs) = Len(tests)
            /\ \A i \in DOMAIN rs : /\ rs[i].test_file = tests[i].name
                                    /\ rs[i].status = "pass"
                                    /\ rs[i].start = rs[i].end
            /\ ("tests" \notin DOMAIN input.doc) => rs = <<>>

\* C5's case: the input {"tests": [{"name": "A"}, {"name": "B"}]}.
C5_Witness ==
    /\ prog = "selection" /\ written.name # <<>>
    /\ input.doc = [tests |-> <<[name |-> "A"], [name |-> "B"]>>]
    /\ Len(written.content.results) = 2

UsagePrinted(out) ==
    \E i \in DOMAIN out : out[i] = <<"Usage: generate_test_results.py <test_file>">>

\* an input on which main cannot reach its final write
FaultyInput(f) ==
    \/ f.kind \in {"missing", "invalid", "array"}
    \/ /\ f.kind = "json"
       /\ \E i \in DOMAIN GetTests(f.doc) : "name" \notin DOMAIN GetTests(f.doc)[i]

\* C6: a step by which generate_test_results.py ends with a non-zero status
\* ends it with status 1, leaves the directory as it was, and ends a process
\* that wrote no file; when the usage message was printed, the input was not
\* read either.  A process that ends after reading a faulty input (no file,
\* not JSON, not an object, an entry without "name") ends this way.
C6_NoOutputOnFault ==
    [][(prog = "selection" /\ pc' = "exit") =>
          /\ (FaultyInput(input') \/ UsagePrinted(stdout')) => exit_code' # 0
          /\ (exit_code' # 0) =>
                /\ exit_code' = 1
                /\ dir' = dir
                /\ written'.name = <<>>
                /\ UsagePrinted(stdout') => input' = NoInput]_vars

\* C6's case: the usage exit in a directory that holds an earlier output.
C6_Witness ==
    /\ prog = "selection" /\ pc = "exit" /\ exit_code = 1
    /\ UsagePrinted(stdout)
    /\ dir = {SelectionFileName}

FileName(p, i) ==
    CASE p = "gotest" -> GotestFileName(i)
      [] p = "xunit"  -> XunitFileName(i)
      [] p = "traces" -> TracesFileName(i)

\* C7: with k the larger of the largest num_files of the completed
\* invocations and the number of files the running one has written, the
\* directory holds exactly the names of the indices below k, and these are k
\* different names.  So an invocation with a count that was run before adds
\* no name.
C7_FileNames ==
    (prog \in {"gotest", "xunit", "traces"}) =>
        LET k == Max(max_run, file_num)
        IN  /\ dir = {FileName(prog, i) : i \in 0..(k - 1)}
            /\ Cardinality(dir) = k

\* C7's case: an invocation for one file has ended after one for two files.
C7_Witness ==
    /\ prog \in {"gotest", "xunit", "traces"}
    /\ pc = "exit" /\ num_files = 1 /\ max_run = 2
    /\ Cardinality(dir) = 2

\* C8: in an xUnit run with failure_rate 0.0 no test case is marked failed:
\* every written document has tests_per_file <testcase> elements, none with
\* a <failure> child, and failures = 0; at the end num_files files were
\* written, total_tests is num_files * tests_per_file and total_failures 0.
C8_ZeroFailureRate ==
    (prog = "xunit" /\ pc # "start" /\ failure_rate = 0) =>
        /\ num_failures = 0 /\ total_failures = 0
        /\ written.name # <<>> =>
              /\ CountIf(written.content.children, IsTestcase) = tests_per_file
              /\ CountIf(written.content.children, HasFailure) = 0
              /\ written.content.failures = 0
        /\ pc = "exit" =>
              /\ file_num = num_files
              /\ {XunitFileName(i) : i \in 0..(num_files - 1)} \subseteq dir
              /\ total_tests = num_files * tests_per_file
              /\ stdout = << <<"Total tests:", num_files * tests_per_file>>,
                             <<"Total failures:", 0>> >>

\* C8's case: the run of 2 files of 2 tests at failure rate 0.0 has ended.
C8_Witness ==
    /\ prog = "xunit" /\ pc = "exit" /\ failure_rate = 0
    /\ num_files = 2 /\ tests_per_file = 2
    /\ Len(written.content.children) = 2

\* C9 (as claimed): a written trace file holds spans_per_file spans.
C9_SpansPerFile ==
    (prog = "traces" /\ written.name # <<>>) =>
        TotalSpans(written.content) = spans_per_file

\* C10 (as claimed): the log_raw of every generated result has exactly
\* log_lines lines.
C10_LogLines ==
    (prog = "results") =>
        \A i \in DOMAIN results : Len(results[i].log_raw) = log_lines

\* the spans of the trace object generate_trace_data built last
LastSpans == SpansOfLine(lines[Len(lines)])

\* C11: in the trace object built last (every object is, at the step that
\* appends its line) the first span has the empty parentSpanId, every later
\* span has the empty parentSpanId or the spanId of a span before it in the
\* same spans list, and all spans carry one traceId.
C11_ParentsAreEarlierSpans ==
    (prog = "traces" /\ lines # <<>>) =>
        LET spans == LastSpans
        IN  /\ spans[1].parentSpanId = <<>>
            /\ \A i \in 2..Len(spans) :
                  \/ spans[i].parentSpanId = <<>>
                  \/ \E k \in 1..(i - 1) : spans[i - k].spanId = spans[i].parentSpanId
            /\ \A i \in DOMAIN spans : spans[i].traceId = spans[1].traceId

\* C11's case: the second span is a child of the first, the third keeps that
\* parent (it is not the span just before it), the fourth is a root again.
C11_Witness ==
    /\ prog = "traces" /\ lines # <<>>
    /\ Len(LastSpans) = spans_per_object
    /\ LastSpans[2].parentSpanId = LastSpans[1].spanId
    /\ LastSpans[3].parentSpanId = LastSpans[1].spanId
    /\ LastSpans[4].parentSpanId = <<>>

=============================================================================
